---- MODULE Spec2Model ----
(***************************************************************************)
(* Model of the food/product identification and nutrition-resolution code  *)
(* of nutri_ai_backend: the scanner routes (lookup_barcode, scan_barcode,  *)
(* scan_product, analyze_image, analyze_products_detailed), the barcode    *)
(* service, the catalog client, the Vertex vision scanner                  *)
(* (analyze_product_image), the AIFoodAnalyzer (get_nutrition_data,        *)
(* calculate_health_score, generate_nutrition_advice), the food_analysis   *)
(* routes (scan_food, get_scan_history, get_scan_result, toggle_favorite,  *)
(* set_nutrition_goals, get_nutrition_goals) and the preferences routes    *)
(* (get_my_preferences, add_liked_product, add_disliked_product,           *)
(* add_scanned_product).                                                   *)
(*                                                                         *)
(* Conventions                                                             *)
(*  - a Python str whose characters matter (barcodes, food names, content  *)
(*    types, file names) is a sequence of one-character strings; the text  *)
(*    of the vision service is a sequence of tokens; a str that is only    *)
(*    stored and compared (product names in the scan history) is a TLA+    *)
(*    string;                                                              *)
(*  - a confidence is an integer number of hundredths (0.3 is 30);         *)
(*  - a nutrition amount or a health score is an integer number of tenths  *)
(*    (52 kcal is 520, 8.5 is 85), a weight is an integer number of grams; *)
(*  - a handler is one action; the request it served and the response it   *)
(*    produced are kept in lastReq and response.                           *)
(***************************************************************************)
EXTENDS Integers, Sequences, FiniteSets, TLC

VARIABLES
    BARCODE_AVAILABLE,  \* barcode_service.BARCODE_AVAILABLE (set at import)
    preferences,        \* the UserPreferences row of the current user
    catalogCalls,       \* barcodes sent to the remote catalog by the last request
    lastReq,            \* the last request: handler and what its collaborators returned
    response,           \* the last response
    analyzerCall,       \* the last call of an AIFoodAnalyzer method: arguments and result
    scannerCall,        \* the last call of a VertexAIImageScanner method: what the
                        \* vision service answered and the result returned
    database,           \* the scan_results and nutrition_goals tables and the files
                        \* in the uploads directory
    foodCall,           \* the last request to a food_analysis route and its answer
    sessions,           \* the requests in flight that add a product to the scan
                        \* history: where each stands and the row its session loaded
    requestsSent        \* how many new products and how many repeated products the
                        \* add-scanned-product route was sent

vars == <<BARCODE_AVAILABLE, preferences, catalogCalls, lastReq, response, analyzerCall,
          scannerCall, database, foodCall, sessions, requestsSent>>

\* what the scanner routes and the analyzer leave alone
storeVars == <<database, foodCall, sessions, requestsSent>>

(***************************************************************************)
(* Bounds                                                                  *)
(***************************************************************************)
MaxBarcodeLen == 14

\* products in the scan history up to which the upload routes are followed
MaxScanned == 2

(***************************************************************************)
(* Characters and strings                                                  *)
(***************************************************************************)
RECURSIVE Rep(_, _)
Rep(c, n) == IF n <= 0 THEN <<>> ELSE <<c>> \o Rep(c, n - 1)

\* str.lower() on the characters the food names and file names use
LowerChar(c) ==
    CASE c = "A" -> "a" [] c = "C" -> "c" [] c = "E" -> "e" [] c = "G" -> "g"
      [] c = "I" -> "i" [] c = "J" -> "j" [] c = "P" -> "p" [] c = "R" -> "r"
      [] OTHER -> c

lower(str) == [i \in 1..Len(str) |-> LowerChar(str[i])]

\* Python's "needle in hay" on strings: true for the empty needle
Contains(hay, needle) ==
    \E i \in 0..(Len(hay) - Len(needle)) : SubSeq(hay, i + 1, i + Len(needle)) = needle

\* str.startswith(prefix)
startswith(text, prefix) ==
    Len(text) >= Len(prefix) /\ SubSeq(text, 1, Len(prefix)) = prefix

\* str.endswith(suffix)
endswith(text, suffix) ==
    Len(text) >= Len(suffix)
    /\ SubSeq(text, Len(text) - Len(suffix) + 1, Len(text)) = suffix

\* characters for which Python's str.isdigit() is true: the ASCII digits and
\* the other Unicode digits ("sup2" stands for the superscript two)
AsciiDigits == {"1", "7"}
UnicodeDigits == {"sup2"}
NonDigits == {"x", "-"}

IsDigitChar(c) == c \in AsciiDigits \cup UnicodeDigits

\* str.isdigit(): every character is a digit and there is at least one
isdigit(s) == Len(s) > 0 /\ \A i \in 1..Len(s) : IsDigitChar(s[i])

\* barcode strings offered to the handlers: every length 0..MaxBarcodeLen,
\* all digits, or with one other character at the front, in the middle, at the end
Barcodes ==
    {Rep("1", n) : n \in 0..MaxBarcodeLen}
    \cup {Rep("7", n - 1) \o <<c>> : n \in {8, 13}, c \in NonDigits \cup UnicodeDigits}
    \cup {<<"x">> \o Rep("1", 9), Rep("1", 4) \o <<"-">> \o Rep("7", 4), <<"x">>}

\* what pyzbar can decode from an image: EAN-8/EAN-13 digits, and the text of
\* a Code-128 or QR symbol (any characters, any length)
DecodedBarcodes ==
    {Rep("1", 8), Rep("7", 13), <<"x", "-", "1">>, Rep("1", 14)}

(***************************************************************************)
(* Collaborators: what the remote catalog, the vision model and the CLIP   *)
(* model can answer.  They are outside the program; every handler draws    *)
(* their answer from these sets.                                           *)
(***************************************************************************)
\* the catalog's answer to GET /product/<barcode>.json: HTTP 200 with status 1
\* ("found"), HTTP 200 with another status ("not_found"), another HTTP code
\* ("http_error"), requests.exceptions.Timeout ("timeout"), or any other
\* exception raised inside the try block ("exception")
CatalogAnswers ==
    {[kind |-> "found", hasName |-> TRUE, product_name |-> "Nutella"],
     [kind |-> "found", hasName |-> FALSE, product_name |-> ""],
     [kind |-> "not_found", hasName |-> FALSE, product_name |-> ""],
     [kind |-> "http_error", hasName |-> FALSE, product_name |-> ""],
     [kind |-> "timeout", hasName |-> FALSE, product_name |-> ""],
     [kind |-> "exception", hasName |-> FALSE, product_name |-> ""]}

NoCatalogAnswer == [kind |-> "not_asked", hasName |-> FALSE, product_name |-> ""]

\* confidences a model can report, in hundredths
Confidences == {0, 30, 31, 85}

\* VertexAIImageScanner.analyze_product_image: the parsed JSON object with
\* success True (its keys are whatever the model wrote: product_name and
\* confidence may be absent, confidence may be null), or _fallback_response
VisionSuccesses ==
    {[outcome |-> "result", success |-> TRUE, hasName |-> TRUE, product_name |-> "apple",
      confKind |-> "num", confidence |-> c] : c \in Confidences}
    \cup {[outcome |-> "result", success |-> TRUE, hasName |-> TRUE,
           product_name |-> "apple", confKind |-> k, confidence |-> 0] :
            k \in {"missing", "null"}}

_fallback_response ==
    [outcome |-> "result", success |-> FALSE, hasName |-> TRUE,
     product_name |-> "unknown_product", confKind |-> "num", confidence |-> 10]

VisionRaises ==
    [outcome |-> "raise", success |-> FALSE, hasName |-> FALSE, product_name |-> "",
     confKind |-> "missing", confidence |-> 0]

VisionAnswers == VisionSuccesses \cup {_fallback_response, VisionRaises}

NoVision ==
    [outcome |-> "not_called", success |-> FALSE, hasName |-> FALSE, product_name |-> "",
     confKind |-> "missing", confidence |-> 0]

\* models/ai_scanner/scanner.py identify_product: always a dict, either the
\* best label with its probability or the fallback record
identify_product_answers ==
    {[product |-> "apple", confidence |-> c, fallback |-> FALSE] : c \in {30, 31, 85}}
    \cup {[product |-> "unknown_food", confidence |-> 10, fallback |-> TRUE]}

NoClip == [product |-> "", confidence |-> 0, fallback |-> FALSE]

\* detect_barcode_with_vertex: barcode_detected true or false, or an exception
VertexBarcodeAnswers == {"detected", "not_detected", "raise"}

\* pyzbar decode(image): a list of symbols (the first is used), none, or an exception
DecodeAnswers ==
    {[kind |-> "symbols", data |-> b] : b \in DecodedBarcodes}
    \cup {[kind |-> "none", data |-> <<>>], [kind |-> "raise", data |-> <<>>]}

NoDecode == [kind |-> "not_called", data |-> <<>>]

(***************************************************************************)
(* Scan history: models/preferences.py and routes/scanner.py               *)
(***************************************************************************)
max_history == 20

InSeq(seq, x) == \E i \in 1..Len(seq) : seq[i] = x

\* list.remove(x): the list without the first x
Remove(seq, x) ==
    IF ~InSeq(seq, x) THEN seq
    ELSE LET i == CHOOSE k \in 1..Len(seq) : seq[k] = x /\ \A j \in 1..(k - 1) : seq[j] # x
         IN  SubSeq(seq, 1, i - 1) \o SubSeq(seq, i + 1, Len(seq))

\* a history that is never cut
add_scanned_product_uncut(products, product) ==
    LET removed == IF InSeq(products, product) THEN Remove(products, product) ELSE products
    IN  <<product>> \o removed

\* UserPreferences.add_scanned_product on the stored list
add_scanned_product(products, product) ==
    LET removed == IF InSeq(products, product) THEN Remove(products, product) ELSE products
        inserted == <<product>> \o removed
    IN  IF Len(inserted) > max_history THEN SubSeq(inserted, 1, max_history) ELSE inserted

\* the user has no UserPreferences row
NoPreferences ==
    [exists |-> FALSE, liked_products |-> <<>>, disliked_products |-> <<>>,
     last_scanned_products |-> <<>>]

\* UserPreferences(user_id, liked_products="[]", disliked_products="[]",
\* allergies="[]", last_scanned_products="[]")
NewPreferences == [NoPreferences EXCEPT !.exists = TRUE]

\* update_scan_history: create the row when the user has none, then add
update_scan_history(prefs, product) ==
    LET row == IF prefs.exists THEN prefs ELSE NewPreferences
    IN  [row EXCEPT !.last_scanned_products = add_scanned_product(@, product)]

(***************************************************************************)
(* Catalog lookups                                                         *)
(***************************************************************************)
NoProductInfo == [asked |-> FALSE, found |-> FALSE, name |-> ""]

\* a lookup that takes every HTTP 200 answer for a product
get_product_by_barcode_any_200(barcode, answer) ==
    IF answer.kind \in {"found", "not_found"}
    THEN [asked |-> TRUE, found |-> TRUE,
          name |-> IF answer.hasName THEN answer.product_name ELSE ""]
    ELSE [asked |-> TRUE, found |-> FALSE, name |-> ""]

\* OpenFoodFactsAPI.get_product_by_barcode: found only on HTTP 200 with
\* status 1; the name is product_name stripped, "" when absent
get_product_by_barcode(barcode, answer) ==
    IF answer.kind = "found"
    THEN [asked |-> TRUE, found |-> TRUE,
          name |-> IF answer.hasName THEN answer.product_name ELSE ""]
    ELSE [asked |-> TRUE, found |-> FALSE, name |-> ""]

\* barcode_service.get_product_info: the same request, made for whatever
\* string it is given; the name defaults to "Unknown product"
get_product_info(barcode, answer) ==
    IF answer.kind = "found"
    THEN [asked |-> TRUE, found |-> TRUE,
          name |-> IF answer.hasName THEN answer.product_name ELSE "Unknown product"]
    ELSE [asked |-> TRUE, found |-> FALSE, name |-> ""]

\* barcode_service.analyze_barcode_image: the result dict, and the barcodes
\* it sent to the catalog
analyze_barcode_image(available, dec, answer) ==
    IF ~available
    THEN [outcome |-> "unavailable", barcode |-> <<>>, product |-> NoProductInfo, calls |-> <<>>]
    ELSE IF dec.kind = "raise"
    THEN [outcome |-> "error", barcode |-> <<>>, product |-> NoProductInfo, calls |-> <<>>]
    ELSE IF dec.kind = "symbols"
    THEN [outcome |-> "barcode", barcode |-> dec.data,
          product |-> get_product_info(dec.data, answer), calls |-> <<dec.data>>]
    ELSE [outcome |-> "no_barcode", barcode |-> <<>>, product |-> NoProductInfo, calls |-> <<>>]

\* analyze_products_detailed_with_vertex: success true with the products
\* found (possibly none, a product possibly without name and weight), success
\* false, or an exception
DetailedAnswers ==
    {[outcome |-> "result", success |-> TRUE, products |-> ps] :
        ps \in {<<>>,
                <<[hasName |-> TRUE, name |-> "apple", weight |-> 150]>>,
                <<[hasName |-> TRUE, name |-> "apple", weight |-> 150],
                  [hasName |-> FALSE, name |-> "", weight |-> 0]>>}}
    \cup {[outcome |-> "result", success |-> FALSE, products |-> <<>>],
          [outcome |-> "raise", success |-> FALSE, products |-> <<>>]}

NoDetailed == [outcome |-> "not_called", success |-> FALSE, products |-> <<>>]

(***************************************************************************)
(* Uploads: routes/scanner.py is_image_file                                *)
(***************************************************************************)
\* the uploads offered to the routes: content type and file name as sent by
\* the client, <<>> standing for a part that is absent (None)
Uploads ==
    {[content_type |-> <<"i", "m", "a", "g", "e", "/", "p", "n", "g">>, filename |-> <<"a", ".", "p", "n", "g">>],
     [content_type |-> <<>>, filename |-> <<"A", ".", "J", "P", "G">>],
     [content_type |-> <<"t", "e", "x", "t", "/", "p", "l", "a", "i", "n">>, filename |-> <<"a", ".", "t", "x", "t">>],
     [content_type |-> <<>>, filename |-> <<>>],
     [content_type |-> <<"x", "-", "i", "m", "a", "g", "e", "/", "p", "n", "g">>, filename |-> <<"j", "p", "g">>]}

NoUpload == [content_type |-> <<>>, filename |-> <<>>]

\* a check that looks at the content type alone
is_image_file_by_type(file) ==
    Len(file.content_type) > 0 /\ startswith(file.content_type, <<"i", "m", "a", "g", "e", "/">>)

\* is_image_file: the content type starts with image/, or the file name in
\* lower case ends with .jpg, .jpeg or .png
is_image_file(file) ==
    IF Len(file.content_type) > 0 /\ startswith(file.content_type, <<"i", "m", "a", "g", "e", "/">>)
    THEN TRUE
    ELSE IF Len(file.filename) > 0
    THEN \E ext \in {<<".", "j", "p", "g">>, <<".", "j", "p", "e", "g">>, <<".", "p", "n", "g">>} : endswith(lower(file.filename), ext)
    ELSE FALSE

(***************************************************************************)
(* Requests and responses                                                  *)
(***************************************************************************)
NoData ==
    [kind |-> "none", barcode |-> <<>>, found |-> FALSE, name |-> "",
     confKind |-> "missing", confidence |-> 0]

NoRequest ==
    [op |-> "none", barcode |-> <<>>, isImage |-> FALSE, decodes |-> FALSE,
     vertexBarcode |-> "not_called", decode |-> NoDecode, catalog |-> NoCatalogAnswer,
     vision |-> NoVision, clip |-> NoClip, hasGoals |-> FALSE, file |-> NoUpload,
     detailed |-> NoDetailed, product |-> ""]

NoResponse ==
    [op |-> "none", status |-> 0, success |-> FALSE, hasMain |-> FALSE,
     main_result |-> NoData, all_methods |-> <<>>, product |-> NoProductInfo,
     identified_product |-> "", confidence |-> 0, is_fallback |-> FALSE,
     scan_method |-> ""]

\* .get("confidence", 0.0) of a result whose confidence is a number or absent
GetConfidence(r) == IF r.confKind = "missing" THEN 0 ELSE r.confidence

(***************************************************************************)
(* routes/scanner.py lookup_barcode                                        *)
(***************************************************************************)
\* a validation that checks the length alone
barcode_is_valid_length_only(barcode) ==
    ~(Len(barcode) < 8 \/ Len(barcode) > 13)

\* the two checks made before the catalog is asked
barcode_is_valid(barcode) ==
    /\ ~(Len(barcode) = 0 \/ ~isdigit(barcode))
    /\ ~(Len(barcode) < 8 \/ Len(barcode) > 13)

lookup_barcode ==
    \E barcode \in Barcodes :
    \E answer \in (IF barcode_is_valid(barcode) THEN CatalogAnswers ELSE {NoCatalogAnswer}) :
        LET req == [NoRequest EXCEPT !.op = "lookup_barcode", !.barcode = barcode,
                                     !.catalog = answer]
            info == get_product_by_barcode(barcode, answer)
        IN  /\ lastReq' = req
            /\ IF ~barcode_is_valid(barcode)
               THEN \* HTTPException(400), re-raised by the handler
                    /\ response' = [NoResponse EXCEPT !.op = "lookup_barcode", !.status = 400]
                    /\ catalogCalls' = <<>>
                    /\ UNCHANGED preferences
               ELSE /\ catalogCalls' = <<barcode>>
                    /\ response' = [NoResponse EXCEPT !.op = "lookup_barcode", !.status = 200,
                                                      !.success = info.found,
                                                      !.product = info,
                                                      !.scan_method = "barcode_lookup"]
                    /\ preferences' = IF info.found
                                      THEN update_scan_history(preferences, info.name)
                                      ELSE preferences
            /\ UNCHANGED <<BARCODE_AVAILABLE, analyzerCall, scannerCall, storeVars>>

(***************************************************************************)
(* routes/scanner.py scan_product                                          *)
(***************************************************************************)
\* the product scan_product settles on from the vision answer and, when the
\* vision answer has success false, the CLIP answer
scan_product_choice(v, clip) ==
    IF v.success
    THEN [identified_product |-> IF v.hasName THEN v.product_name ELSE "unknown",
          confidence |-> GetConfidence(v), is_fallback |-> FALSE]
    ELSE [identified_product |-> clip.product, confidence |-> clip.confidence,
          is_fallback |-> TRUE]

scan_product ==
    \E file \in Uploads :
    \E decodes \in (IF is_image_file(file) THEN BOOLEAN ELSE {FALSE}) :
    \E v \in (IF decodes THEN VisionAnswers ELSE {NoVision}) :
    \E clip \in (IF v.outcome = "result" /\ ~v.success
                 THEN identify_product_answers ELSE {NoClip}) :
        LET isImage == is_image_file(file)
            req == [NoRequest EXCEPT !.op = "scan_product", !.file = file,
                                     !.isImage = isImage,
                                     !.decodes = decodes, !.vision = v, !.clip = clip]
            choice == scan_product_choice(v, clip)
            \* is_image_file false, Image.open failing, the vision call raising
            \* and formatting a null confidence all end in the handler's
            \* except Exception, which answers 500
            fails == \/ ~isImage
                     \/ ~decodes
                     \/ v.outcome = "raise"
                     \/ (v.success /\ v.confKind = "null")
        IN  /\ lastReq' = req
            /\ catalogCalls' = <<>>
            /\ IF fails
               THEN /\ response' = [NoResponse EXCEPT !.op = "scan_product", !.status = 500]
                    /\ UNCHANGED preferences
               ELSE /\ preferences' =
                         update_scan_history(preferences, choice.identified_product)
                    /\ response' =
                         [NoResponse EXCEPT !.op = "scan_product", !.status = 200,
                            !.success = TRUE,
                            !.identified_product = choice.identified_product,
                            !.confidence = choice.confidence,
                            !.is_fallback = choice.is_fallback,
                            !.scan_method = IF ~choice.is_fallback THEN "vertex_ai"
                                            ELSE "clip_fallback"]
            /\ UNCHANGED <<BARCODE_AVAILABLE, analyzerCall, scannerCall, storeVars>>

(***************************************************************************)
(* routes/scanner.py analyze_image                                         *)
(***************************************************************************)
Attempt(method, success, data) == [method |-> method, success |-> success, data |-> data]

\* a threshold that lets a confidence of exactly 0.3 through
confident_inclusive(confidence) == confidence >= 30

\* the minimum-confidence test applied to a vision or CLIP result
confident(confidence) == confidence > 30

\* first stage: Vertex barcode detection, else the library decode with its
\* catalog lookup; exactly one entry is appended
barcode_stage(vb, br) ==
    IF vb = "detected"
    THEN Attempt("vertex_ai_barcode", TRUE, [NoData EXCEPT !.kind = "vertex_barcode"])
    ELSE IF br.outcome = "barcode" /\ Len(br.barcode) > 0
    THEN Attempt("traditional_barcode", TRUE,
                 [NoData EXCEPT !.kind = "barcode", !.barcode = br.barcode,
                                !.found = br.product.found, !.name = br.product.name])
    ELSE Attempt("barcode_analysis", FALSE, NoData)

\* second stage: Vertex product recognition, CLIP when it reports failure;
\* an exception (the call raising, a null confidence compared with 0.3) is
\* caught and recorded
vision_stage(v, clip) ==
    IF v.outcome = "raise" \/ (v.success /\ v.confKind = "null")
    THEN Attempt("ai_recognition", FALSE, NoData)
    ELSE IF v.success
    THEN IF confident(GetConfidence(v))
         THEN Attempt("vertex_ai_product", TRUE,
                      [NoData EXCEPT !.kind = "vision",
                                     !.name = IF v.hasName THEN v.product_name ELSE "unknown",
                                     !.confKind = v.confKind, !.confidence = v.confidence])
         ELSE Attempt("vertex_ai_product", FALSE, NoData)
    ELSE IF ~clip.fallback /\ confident(clip.confidence)
         THEN Attempt("clip_ai_fallback", TRUE,
                      [NoData EXCEPT !.kind = "clip", !.name = clip.product,
                                     !.confKind = "num", !.confidence = clip.confidence])
         ELSE Attempt("ai_recognition", FALSE, NoData)

\* a selection that takes the success recorded last
select_last_success(results) ==
    IF Len(results) > 1 /\ results[2].success THEN results[2].data
    ELSE IF results[1].success THEN results[1].data
    ELSE NoData

\* the main result: the first entry when it succeeded, else the second when
\* it succeeded, else None
select_main_result(results) ==
    IF results[1].success THEN results[1].data
    ELSE IF Len(results) > 1 /\ results[2].success THEN results[2].data
    ELSE NoData

analyze_image ==
    \E file \in Uploads :
    \E decodes \in (IF is_image_file(file) THEN BOOLEAN ELSE {FALSE}) :
    \E vb \in (IF decodes THEN VertexBarcodeAnswers ELSE {"not_called"}) :
    \E dec \in (IF vb = "not_detected" /\ BARCODE_AVAILABLE THEN DecodeAnswers ELSE {NoDecode}) :
    \E answer \in (IF dec.kind = "symbols" THEN CatalogAnswers ELSE {NoCatalogAnswer}) :
    \E v \in (IF vb \in {"detected", "not_detected"} THEN VisionAnswers ELSE {NoVision}) :
    \E clip \in (IF v.outcome = "result" /\ ~v.success
                 THEN identify_product_answers ELSE {NoClip}) :
        LET isImage == is_image_file(file)
            req == [NoRequest EXCEPT !.op = "analyze_image", !.file = file,
                                     !.isImage = isImage,
                                     !.decodes = decodes, !.vertexBarcode = vb,
                                     !.decode = dec, !.catalog = answer,
                                     !.vision = v, !.clip = clip]
            br == analyze_barcode_image(BARCODE_AVAILABLE, dec, answer)
            results == <<barcode_stage(vb, br), vision_stage(v, clip)>>
            main == select_main_result(results)
            \* is_image_file false, Image.open failing and the Vertex barcode
            \* call raising end in the handler's except Exception: 500
            fails == ~isImage \/ ~decodes \/ vb = "raise"
        IN  /\ lastReq' = req
            /\ catalogCalls' = IF vb = "not_detected" THEN br.calls ELSE <<>>
            /\ response' =
                 IF fails
                 THEN [NoResponse EXCEPT !.op = "analyze_image", !.status = 500]
                 ELSE [NoResponse EXCEPT !.op = "analyze_image", !.status = 200,
                         !.success = (main.kind # "none"),
                         !.hasMain = (main.kind # "none"),
                         !.main_result = main,
                         !.all_methods = results]
            /\ UNCHANGED <<preferences, BARCODE_AVAILABLE, analyzerCall, scannerCall, storeVars>>

(***************************************************************************)
(* routes/scanner.py scan_barcode                                          *)
(***************************************************************************)
\* f"Product {barcode}" for the barcodes the decoder can return
ProductLabel(barcode) ==
    CASE barcode = Rep("1", 8) -> "Product 11111111"
      [] barcode = Rep("7", 13) -> "Product 7777777777777"
      [] barcode = Rep("1", 14) -> "Product 11111111111111"
      [] OTHER -> "Product x-1"

\* result.get("product", {}).get("name", f"Product {barcode}"): the dict of a
\* product that was not found has no name
scan_barcode_product_name(br) ==
    IF br.product.found THEN br.product.name ELSE ProductLabel(br.barcode)

scan_barcode ==
    \E file \in Uploads :
    \E decodes \in (IF is_image_file(file) THEN BOOLEAN ELSE {FALSE}) :
    \E dec \in (IF decodes /\ BARCODE_AVAILABLE THEN DecodeAnswers ELSE {NoDecode}) :
    \E answer \in (IF dec.kind = "symbols" THEN CatalogAnswers ELSE {NoCatalogAnswer}) :
        LET isImage == is_image_file(file)
            req == [NoRequest EXCEPT !.op = "scan_barcode", !.file = file,
                                     !.isImage = isImage, !.decodes = decodes,
                                     !.decode = dec, !.catalog = answer]
            br == analyze_barcode_image(BARCODE_AVAILABLE, dec, answer)
            product_name == scan_barcode_product_name(br)
            \* is_image_file false and Image.open failing end in the handler's
            \* except Exception, which answers 500
            fails == ~isImage \/ ~decodes
        IN  /\ lastReq' = req
            /\ catalogCalls' = IF fails THEN <<>> ELSE br.calls
            /\ IF fails
               THEN /\ response' = [NoResponse EXCEPT !.op = "scan_barcode", !.status = 500]
                    /\ UNCHANGED preferences
               ELSE IF br.outcome = "barcode" /\ Len(br.barcode) > 0
               THEN /\ preferences' = update_scan_history(preferences, product_name)
                    /\ response' = [NoResponse EXCEPT !.op = "scan_barcode", !.status = 200,
                                       !.success = TRUE, !.product = br.product,
                                       !.identified_product = product_name,
                                       !.scan_method = "barcode"]
               ELSE /\ response' = [NoResponse EXCEPT !.op = "scan_barcode", !.status = 200,
                                       !.scan_method = "barcode"]
                    /\ UNCHANGED preferences
            /\ UNCHANGED <<BARCODE_AVAILABLE, analyzerCall, scannerCall, storeVars>>

(***************************************************************************)
(* routes/scanner.py analyze_products_detailed                             *)
(***************************************************************************)
\* f"{name} ({weight}g)" with the defaults 'Unknown' and 0
DetailedLabel(product) ==
    IF product.hasName /\ product.name = "apple" /\ product.weight = 150
    THEN "apple (150g)"
    ELSE "Unknown (0g)"

\* the loop over analysis_result["products"]: one update_scan_history each
RECURSIVE record_products(_, _)
record_products(prefs, products) ==
    IF Len(products) = 0 THEN prefs
    ELSE record_products(update_scan_history(prefs, DetailedLabel(Head(products))),
                         Tail(products))

analyze_products_detailed ==
    \E file \in Uploads :
    \E decodes \in (IF is_image_file(file) THEN BOOLEAN ELSE {FALSE}) :
    \E d \in (IF decodes THEN DetailedAnswers ELSE {NoDetailed}) :
    \E v \in (IF d.outcome = "result" /\ ~d.success THEN VisionAnswers ELSE {NoVision}) :
        LET isImage == is_image_file(file)
            req == [NoRequest EXCEPT !.op = "analyze_products_detailed", !.file = file,
                                     !.isImage = isImage, !.decodes = decodes,
                                     !.detailed = d, !.vision = v]
            \* is_image_file false, Image.open failing, the detailed analysis
            \* raising and the fallback vision call raising all end in the
            \* handler's except Exception, which answers 500
            fails == \/ ~isImage
                     \/ ~decodes
                     \/ d.outcome = "raise"
                     \/ v.outcome = "raise"
        IN  /\ lastReq' = req
            /\ catalogCalls' = <<>>
            /\ IF fails
               THEN /\ response' = [NoResponse EXCEPT !.op = "analyze_products_detailed",
                                                      !.status = 500]
                    /\ UNCHANGED preferences
               ELSE IF d.success
               THEN /\ preferences' = record_products(preferences, d.products)
                    /\ response' = [NoResponse EXCEPT !.op = "analyze_products_detailed",
                                       !.status = 200, !.success = TRUE,
                                       !.scan_method = "detailed_products_analysis"]
               ELSE /\ response' = [NoResponse EXCEPT !.op = "analyze_products_detailed",
                                       !.status = 200,
                                       !.scan_method = "detailed_products_analysis_fallback"]
                    /\ UNCHANGED preferences
            /\ UNCHANGED <<BARCODE_AVAILABLE, analyzerCall, scannerCall, storeVars>>

(***************************************************************************)
(* services/ai_analyzer.py AIFoodAnalyzer                                  *)
(***************************************************************************)

\* self.food_database, in insertion order (the order a dict iterates in);
\* amounts per 100 g in tenths
food_database ==
    <<[key |-> <<"a", "p", "p", "l", "e">>, calories |-> 520, protein |-> 3, carbs |-> 140,
       fat |-> 2, fiber |-> 24, category |-> "fruit"],
      [key |-> <<"b", "a", "n", "a", "n", "a">>, calories |-> 890, protein |-> 11, carbs |-> 230,
       fat |-> 3, fiber |-> 26, category |-> "fruit"],
      [key |-> <<"b", "r", "e", "a", "d">>, calories |-> 2650, protein |-> 90, carbs |-> 490,
       fat |-> 32, fiber |-> 27, category |-> "grain"],
      [key |-> <<"c", "h", "i", "c", "k", "e", "n", " ", "b", "r", "e", "a", "s", "t">>, calories |-> 1650, protein |-> 310, carbs |-> 0,
       fat |-> 36, fiber |-> 0, category |-> "protein"],
      [key |-> <<"r", "i", "c", "e">>, calories |-> 1300, protein |-> 27, carbs |-> 280,
       fat |-> 3, fiber |-> 4, category |-> "grain"]>>

\* the mock row used when no key is related to the name
generic_row ==
    [key |-> <<>>, calories |-> 2000, protein |-> 50, carbs |-> 300,
     fat |-> 80, fiber |-> 30, category |-> "unknown"]

\* the names get_nutrition_data is called with
FoodNames ==
    {<<"a", "p", "p", "l", "e">>,
     <<"A", "p", "p", "l", "e">>,
     <<"b", "a", "n", "a", "n", "a">>,
     <<"b", "r", "e", "a", "d">>,
     <<"c", "h", "i", "c", "k", "e", "n", " ", "b", "r", "e", "a", "s", "t">>,
     <<"R", "I", "C", "E">>,
     <<"c", "h", "i", "c", "k", "e", "n">>,
     <<"r", "i", "c", "e", " ", "b", "r", "e", "a", "d">>,
     <<"b", "a", "n", "a", "n", "a", " ", "b", "r", "e", "a", "d">>,
     <<"p", "i", "n", "e", "a", "p", "p", "l", "e">>,
     <<"t", "o", "t", "a", "l", "l", "y", "_", "u", "n", "k", "n", "o", "w", "n", "_", "x", "y", "z">>,
     <<>>,
     <<"e">>,
     <<"b", "r", "e", "a">>}

\* the weights it is called with, in grams.  For these weights no scaled
\* amount lies exactly halfway between two tenths, where the binary
\* product decides the direction round() takes.
Weights == {-100, -30, 0, 30, 70, 100, 200}

\* n / d rounded to the nearest integer, halves to even (d > 0)
RoundHalfEven(n, d) ==
    LET q == n \div d
        r == n % d
    IN  IF 2 * r < d THEN q
        ELSE IF 2 * r > d THEN q + 1
        ELSE IF q % 2 = 0 THEN q ELSE q + 1

\* a loop without the break: the last related key wins
RECURSIVE find_last_row(_, _)
find_last_row(food_name_lower, i) ==
    IF i > Len(food_database) THEN 0
    ELSE LET later == find_last_row(food_name_lower, i + 1)
         IN  IF later # 0 THEN later
             ELSE IF \/ Contains(food_name_lower, food_database[i].key)
                     \/ Contains(food_database[i].key, food_name_lower)
                  THEN i
                  ELSE 0

\* the loop over food_database.items(): the index of the first key that is
\* in the name or that the name is in, from index i on; 0 when there is none
RECURSIVE find_row(_, _)
find_row(food_name_lower, i) ==
    IF i > Len(food_database) THEN 0
    ELSE IF \/ Contains(food_name_lower, food_database[i].key)
            \/ Contains(food_database[i].key, food_name_lower)
         THEN i
         ELSE find_row(food_name_lower, i + 1)

nutrition_per_100g(food_name) ==
    LET i == find_row(lower(food_name), 1)
    IN  IF i = 0 THEN generic_row ELSE food_database[i]

\* a scaling that cuts the second decimal off instead of rounding
scaled_truncated(per_100g, weight_grams) == (per_100g * weight_grams) \div 100

\* round(per_100g * (weight_grams / 100), 1), in tenths
scaled(per_100g, weight_grams) == RoundHalfEven(per_100g * weight_grams, 100)

get_nutrition_data(food_name, weight_grams) ==
    LET row == nutrition_per_100g(food_name)
    IN  [calories |-> scaled(row.calories, weight_grams),
         protein |-> scaled(row.protein, weight_grams),
         carbs |-> scaled(row.carbs, weight_grams),
         fat |-> scaled(row.fat, weight_grams),
         fiber |-> scaled(row.fiber, weight_grams),
         hasCategory |-> TRUE,
         category |-> row.category]

\* category_scores.get(category, 5.0), in hundredths
category_score(category) ==
    CASE category = "fruit" -> 850
      [] category = "vegetable" -> 900
      [] category = "protein" -> 750
      [] category = "grain" -> 650
      [] category = "dairy" -> 600
      [] category = "unknown" -> 500
      [] OTHER -> 500

Max(a, b) == IF a >= b THEN a ELSE b
Min(a, b) == IF a <= b THEN a ELSE b

\* a score whose fiber bonus starts at exactly 3 g
calculate_health_score_inclusive(nutrition_data) ==
    LET category == IF nutrition_data.hasCategory THEN nutrition_data.category ELSE "unknown"
        base_score == category_score(category)
                      + (IF nutrition_data.fiber >= 30 THEN 50 ELSE 0)
                      + (IF nutrition_data.protein > 100 THEN 50 ELSE 0)
                      - (IF nutrition_data.calories > 4000 THEN 100 ELSE 0)
                      - (IF nutrition_data.fat > 150 THEN 50 ELSE 0)
    IN  Max(10, Min(100, RoundHalfEven(base_score, 10)))

\* the score in tenths: max(1.0, min(10.0, round(base_score, 1)))
calculate_health_score(nutrition_data) ==
    LET category == IF nutrition_data.hasCategory THEN nutrition_data.category ELSE "unknown"
        base_score == category_score(category)
                      + (IF nutrition_data.fiber > 30 THEN 50 ELSE 0)
                      + (IF nutrition_data.protein > 100 THEN 50 ELSE 0)
                      - (IF nutrition_data.calories > 4000 THEN 100 ELSE 0)
                      - (IF nutrition_data.fat > 150 THEN 50 ELSE 0)
    IN  Max(10, Min(100, RoundHalfEven(base_score, 10)))

\* the nutrition dicts calculate_health_score is called with: every category
\* of the table, another one and none, with amounts on each threshold and
\* just above it (tenths), and a fruit well inside every threshold
ScoreInputs ==
    [calories : {4000, 4001}, protein : {100, 101}, carbs : {0},
     fat : {150, 151}, fiber : {30, 31}, hasCategory : {TRUE},
     category : {"fruit", "vegetable", "protein", "grain", "dairy", "unknown", "snack"}]
    \cup [calories : {1000, 4001}, protein : {20}, carbs : {0},
          fat : {10, 151}, fiber : {30, 40}, hasCategory : {FALSE}, category : {""}]
    \cup {[calories |-> 1000, protein |-> 20, carbs |-> 250, fat |-> 10, fiber |-> 40,
           hasCategory |-> TRUE, category |-> "fruit"]}

NoNutrition ==
    [calories |-> 0, protein |-> 0, carbs |-> 0, fat |-> 0, fiber |-> 0,
     hasCategory |-> FALSE, category |-> ""]

NoCall ==
    [method |-> "none", caller |-> "none", food_name |-> <<>>, weight_grams |-> 0,
     outcome |-> "none", nutrition_data |-> NoNutrition, health_score |-> 0,
     image_name |-> <<>>, confidence_score |-> 0]

\* the stems of the image files _analyze_with_fallback is called with: food
\* words as a user names a photo, and the stem of a generated file name
ImageStems == FoodNames \cup {<<"1", "7", "-", "e", "1", "-", "7", "1">>}

\* _analyze_with_fallback(image_path): the first food_database key that is in
\* the lower-cased stem or that the stem is in, with confidence 0.7; "unknown
\* food" with confidence 0.3 when there is none; the weight is always 150
_analyze_with_fallback(image_stem) ==
    LET i == find_row(lower(image_stem), 1)
    IN  [food_name |-> IF i = 0 THEN <<"u", "n", "k", "n", "o", "w", "n", " ", "f", "o", "o", "d">> ELSE food_database[i].key,
         estimated_weight_grams |-> 150,
         confidence_score |-> IF i # 0 THEN 70 ELSE 30]

\* a call of ai_analyzer._analyze_with_fallback on a saved image
call_analyze_with_fallback ==
    \E image_stem \in ImageStems :
        LET result == _analyze_with_fallback(image_stem)
        IN  /\ analyzerCall' = [NoCall EXCEPT !.method = "_analyze_with_fallback",
                                  !.caller = "direct",
                                  !.image_name = image_stem,
                                  !.food_name = result.food_name,
                                  !.weight_grams = result.estimated_weight_grams,
                                  !.confidence_score = result.confidence_score,
                                  !.outcome = "returned"]
            /\ UNCHANGED <<BARCODE_AVAILABLE, preferences, catalogCalls, lastReq, response,
                           scannerCall, storeVars>>

\* a call of ai_analyzer.get_nutrition_data(food_name, weight_grams)
call_get_nutrition_data ==
    \E food_name \in FoodNames, weight_grams \in Weights :
        /\ analyzerCall' = [NoCall EXCEPT !.method = "get_nutrition_data",
                              !.caller = "direct",
                              !.food_name = food_name, !.weight_grams = weight_grams,
                              !.outcome = "returned",
                              !.nutrition_data = get_nutrition_data(food_name, weight_grams)]
        /\ UNCHANGED <<BARCODE_AVAILABLE, preferences, catalogCalls, lastReq, response,
                       scannerCall, storeVars>>

\* a call of ai_analyzer.calculate_health_score(nutrition_data)
call_calculate_health_score ==
    \E nutrition_data \in ScoreInputs :
        /\ analyzerCall' = [NoCall EXCEPT !.method = "calculate_health_score",
                              !.caller = "direct",
                              !.outcome = "returned",
                              !.nutrition_data = nutrition_data,
                              !.health_score = calculate_health_score(nutrition_data)]
        /\ UNCHANGED <<BARCODE_AVAILABLE, preferences, catalogCalls, lastReq, response,
                       scannerCall, storeVars>>

(***************************************************************************)
(* routes/food_analysis.py get_ai_nutrition_advice                         *)
(***************************************************************************)
\* ai_analyzer = AIFoodAnalyzer(): no api_key, so self.client is None
client_configured == FALSE

\* generate_nutrition_advice: with a client and goals the sentence of
\* _generate_ai_advice; otherwise self._generate_fallback_advice, which the
\* class does not define (its def line lies inside the string literal of
\* _generate_ai_advice), so the AttributeError is caught by the bare except
\* and raised again by the call in the handler
generate_nutrition_advice(hasClient, hasGoals) ==
    IF hasClient /\ hasGoals THEN "advice" ELSE "AttributeError"

\* the route: weight_grams is a query parameter, passed on as it comes;
\* hasGoals says whether the user has an active NutritionGoal row
get_ai_nutrition_advice ==
    \E food_name \in FoodNames, weight_grams \in Weights, hasGoals \in BOOLEAN :
        LET nutrition_data == get_nutrition_data(food_name, weight_grams)
            advice == generate_nutrition_advice(client_configured, hasGoals)
        IN  /\ analyzerCall' = [NoCall EXCEPT !.method = "get_nutrition_data",
                                  !.caller = "get_ai_nutrition_advice",
                                  !.food_name = food_name, !.weight_grams = weight_grams,
                                  !.outcome = "returned",
                                  !.nutrition_data = nutrition_data,
                                  !.health_score =
                                      IF advice = "AttributeError" THEN 0
                                      ELSE calculate_health_score(nutrition_data)]
            /\ lastReq' = [NoRequest EXCEPT !.op = "get_ai_nutrition_advice",
                                          !.hasGoals = hasGoals]
            /\ response' = [NoResponse EXCEPT !.op = "get_ai_nutrition_advice",
                              !.status = IF advice = "AttributeError" THEN 500 ELSE 200,
                              !.success = (advice # "AttributeError")]
            /\ catalogCalls' = <<>>
            /\ UNCHANGED <<BARCODE_AVAILABLE, preferences, scannerCall, storeVars>>

(***************************************************************************)
(* services/vertex_ai_image_scanner_new.py VertexAIImageScanner            *)
(*                                                                         *)
(* The text the vision service returns is a sequence of tokens: a code     *)
(* fence, the tag word json, a line break, the text of a JSON object, the  *)
(* text of another JSON value, and prose.                                  *)
(***************************************************************************)
\* three backquotes
Fence == "fence"
Tag == "json"
Newline == "\n"
JsonObject == "{..}"
JsonArray == "[..]"
Prose == "text"

\* texts the vision service can return: prose or blank lines in front, an
\* opening fence with or without the tag, a body, a closing fence, a
\* trailing line break; and the empty text
ResponseTexts ==
    {l \o o \o b \o c \o t :
        l \in {<<>>, <<Newline>>, <<Prose, Newline>>},
        o \in {<<>>, <<Fence, Tag, Newline>>, <<Fence, Newline>>},
        b \in {<<JsonObject>>, <<JsonArray>>, <<Prose>>, <<JsonObject, Newline, Prose>>},
        c \in {<<>>, <<Newline, Fence>>},
        t \in {<<>>, <<Newline>>}}
    \cup {<<>>}

\* generate_content_with_image: a dict with the text, nothing usable (None or
\* a dict without 'content'), or an exception
VertexResponses ==
    {[kind |-> "content", content |-> c] : c \in ResponseTexts}
    \cup {[kind |-> "none", content |-> <<>>], [kind |-> "raise", content |-> <<>>]}

\* str.strip(): white space removed from both ends
RECURSIVE lstrip(_)
lstrip(text) ==
    IF Len(text) > 0 /\ text[1] = Newline THEN lstrip(Tail(text)) ELSE text

RECURSIVE rstrip(_)
rstrip(text) ==
    IF Len(text) > 0 /\ text[Len(text)] = Newline
    THEN rstrip(SubSeq(text, 1, Len(text) - 1)) ELSE text

strip(text) == rstrip(lstrip(text))

\* str.replace(old, ''): every occurrence of old removed, left to right
RECURSIVE replace(_, _)
replace(text, old) ==
    IF Len(text) < Len(old) THEN text
    ELSE IF SubSeq(text, 1, Len(old)) = old
    THEN replace(SubSeq(text, Len(old) + 1, Len(text)), old)
    ELSE <<text[1]>> \o replace(Tail(text), old)

\* json.loads: white space around the value is allowed, anything else is not
json_loads(text) ==
    IF strip(text) = <<JsonObject>> THEN "dict"
    ELSE IF strip(text) = <<JsonArray>> THEN "list"
    ELSE "JSONDecodeError"

NoScanResult ==
    [success |-> FALSE, scan_method |-> "", product_name |-> "", error |-> <<>>]

\* _fallback_response(error_message): the sentinel record carrying the message
fallback_result(error_message) ==
    [success |-> FALSE, scan_method |-> "fallback", product_name |-> "unknown_product",
     error |-> error_message]

\* analyze_product_image: the fences are removed only from a text that starts
\* with the tagged fence; a JSONDecodeError yields the fallback record with the
\* decoder's message; a parsed value that is no dict fails at
\* result['scan_method'] = ... with a TypeError, caught by the outer except
analyze_product_image(resp) ==
    IF resp.kind = "raise"
    THEN fallback_result(<<"Analysis error: ", "exception message">>)
    ELSE IF resp.kind # "content"
    THEN fallback_result(<<"No response from Vertex AI">>)
    ELSE LET stripped == strip(resp.content)
             content == IF startswith(stripped, <<Fence, Tag>>)
                        THEN strip(replace(replace(stripped, <<Fence, Tag>>), <<Fence>>))
                        ELSE stripped
             parsed == json_loads(content)
         IN  IF parsed = "dict"
             THEN [success |-> TRUE, scan_method |-> "vertex_ai_vision",
                   product_name |-> "from the JSON object", error |-> <<>>]
             ELSE IF parsed = "list"
             THEN fallback_result(<<"Analysis error: ", "exception message">>)
             ELSE fallback_result(<<"JSON parsing failed: ", "decoder message">>)

NoScannerCall ==
    [method |-> "none", response |-> [kind |-> "none", content |-> <<>>],
     result |-> NoScanResult]

\* a call of analyze_product_image on an image, the vision service answering
\* anything
call_analyze_product_image ==
    \E resp \in VertexResponses :
        /\ scannerCall' = [method |-> "analyze_product_image", response |-> resp,
                           result |-> analyze_product_image(resp)]
        /\ UNCHANGED <<BARCODE_AVAILABLE, preferences, catalogCalls, lastReq, response,
                       analyzerCall, storeVars>>

(***************************************************************************)
(* routes/preferences.py: get_my_preferences, add_liked_product,           *)
(* add_disliked_product, add_scanned_product                               *)
(***************************************************************************)
\* product names a client sends (get_available_options lists the first 18)
ProductNames ==
    <<"apple", "bread", "milk", "pasta", "rice", "banana", "orange", "chicken",
      "beef", "fish", "cheese", "yogurt", "tomato", "potato", "carrot", "broccoli",
      "pizza", "burger", "egg", "honey", "lemon", "melon", "onion", "pear">>

\* the products sent to add_liked_product and add_disliked_product
LikedProducts == {ProductNames[1], ProductNames[2], ProductNames[3]}

\* different products sent to add_scanned_product, one more than max_history
MaxNewProducts == 21

\* requests to add_scanned_product that send a product sent before
MaxRepeated == 1

prefsRouteVars == <<BARCODE_AVAILABLE, catalogCalls, analyzerCall, scannerCall, database,
                    foodCall, sessions>>

\* GET /preferences/me: the row is created with empty lists when missing
get_my_preferences ==
    /\ preferences' = IF preferences.exists THEN preferences ELSE NewPreferences
    /\ lastReq' = [NoRequest EXCEPT !.op = "get_my_preferences"]
    /\ response' = [NoResponse EXCEPT !.op = "get_my_preferences", !.status = 200]
    /\ UNCHANGED prefsRouteVars
    /\ UNCHANGED requestsSent

\* an addition that leaves the other list alone
add_to_list_only(target, other, product) ==
    IF ~InSeq(target, product)
    THEN [target |-> Append(target, product), other |-> other]
    ELSE [target |-> target, other |-> other]

\* the body of add_liked_product and add_disliked_product on the list the
\* product goes to and the other list: a product not in the target list is
\* appended to it and removed from the other list
add_to_list(target, other, product) ==
    IF ~InSeq(target, product)
    THEN [target |-> Append(target, product),
          other |-> IF InSeq(other, product) THEN Remove(other, product) ELSE other]
    ELSE [target |-> target, other |-> other]

\* POST /preferences/me/add-liked-product
add_liked_product ==
    \E product \in LikedProducts :
        LET lists == add_to_list(preferences.liked_products,
                                 preferences.disliked_products, product)
        IN  /\ lastReq' = [NoRequest EXCEPT !.op = "add_liked_product", !.product = product]
            /\ IF ~preferences.exists
               THEN /\ response' = [NoResponse EXCEPT !.op = "add_liked_product",
                                                      !.status = 404]
                    /\ UNCHANGED preferences
               ELSE /\ response' = [NoResponse EXCEPT !.op = "add_liked_product",
                                                      !.status = 200]
                    /\ preferences' = [preferences EXCEPT
                                         !.liked_products = lists.target,
                                         !.disliked_products = lists.other]
            /\ UNCHANGED prefsRouteVars
            /\ UNCHANGED requestsSent

\* POST /preferences/me/add-disliked-product
add_disliked_product ==
    \E product \in LikedProducts :
        LET lists == add_to_list(preferences.disliked_products,
                                 preferences.liked_products, product)
        IN  /\ lastReq' = [NoRequest EXCEPT !.op = "add_disliked_product",
                                            !.product = product]
            /\ IF ~preferences.exists
               THEN /\ response' = [NoResponse EXCEPT !.op = "add_disliked_product",
                                                      !.status = 404]
                    /\ UNCHANGED preferences
               ELSE /\ response' = [NoResponse EXCEPT !.op = "add_disliked_product",
                                                      !.status = 200]
                    /\ preferences' = [preferences EXCEPT
                                         !.disliked_products = lists.target,
                                         !.liked_products = lists.other]
            /\ UNCHANGED prefsRouteVars
            /\ UNCHANGED requestsSent

\* the products a request to add_scanned_product may send: the next name
\* that was never sent, or a name sent before
NewProduct == ProductNames[requestsSent.new + 1]
SentBefore == {ProductNames[i] : i \in 1..requestsSent.new}

\* POST /preferences/me/add-scanned-product, served alone: the row is created
\* when missing, the product is added to the history and the row committed
add_scanned_product_route ==
    \E repeat \in BOOLEAN :
        /\ IF repeat THEN requestsSent.repeated < MaxRepeated
                     ELSE requestsSent.new < MaxNewProducts
        /\ \E product \in IF repeat THEN SentBefore ELSE {NewProduct} :
              LET row == IF preferences.exists THEN preferences ELSE NewPreferences
              IN  /\ preferences' = [row EXCEPT !.last_scanned_products =
                                        add_scanned_product(@, product)]
                  /\ lastReq' = [NoRequest EXCEPT !.op = "add_scanned_product",
                                                  !.product = product]
                  /\ response' = [NoResponse EXCEPT !.op = "add_scanned_product",
                                                    !.status = 200]
        /\ requestsSent' = IF repeat THEN [requestsSent EXCEPT !.repeated = @ + 1]
                           ELSE [requestsSent EXCEPT !.new = @ + 1]
        /\ UNCHANGED prefsRouteVars

(***************************************************************************)
(* add_scanned_product under requests that overlap.  The route is a plain  *)
(* def, so each request runs on a worker thread with a Session of its own  *)
(* (get_db); nothing locks the row between the query that loads it and the *)
(* commit that writes the history back.                                    *)
(***************************************************************************)
\* the requests of one user that may be in flight together
Requests == {1, 2}

\* the products these requests send
ConcurrentProducts == {ProductNames[1], ProductNames[2], ProductNames[3]}

NoSession == [pc |-> "idle", product |-> "", row |-> NoPreferences]

\* the products of the other requests that loaded the row and have not
\* committed yet
InFlight(r) == {sessions[q].product : q \in {q \in Requests \ {r} : sessions[q].pc = "loaded"}}

\* a request arrives: db.query(UserPreferences).first() loads the row into
\* the request's session; when there is none the row is created, committed
\* and refreshed.  Requests in flight together carry different products.
load_preferences(r) ==
    /\ sessions[r].pc \in {"idle", "committed"}
    /\ \E product \in ConcurrentProducts \ InFlight(r) :
          LET row == IF preferences.exists THEN preferences ELSE NewPreferences
          IN  /\ preferences' = row
              /\ sessions' = [sessions EXCEPT ![r] =
                                 [pc |-> "loaded", product |-> product, row |-> row]]
    /\ UNCHANGED <<BARCODE_AVAILABLE, catalogCalls, lastReq, response, analyzerCall,
                   scannerCall, database, foodCall, requestsSent>>

\* preferences.add_scanned_product(product) on the row the session loaded,
\* then db.commit(): the UPDATE writes the new last_scanned_products
commit_scanned_product(r) ==
    /\ sessions[r].pc = "loaded"
    /\ preferences' = [preferences EXCEPT !.last_scanned_products =
                          add_scanned_product(sessions[r].row.last_scanned_products,
                                              sessions[r].product)]
    /\ sessions' = [sessions EXCEPT ![r].pc = "committed"]
    /\ UNCHANGED <<BARCODE_AVAILABLE, catalogCalls, lastReq, response, analyzerCall,
                   scannerCall, database, foodCall, requestsSent>>

(***************************************************************************)
(* routes/food_analysis.py: scan_food, get_scan_history, get_scan_result,  *)
(* toggle_favorite, set_nutrition_goals, get_nutrition_goals               *)
(***************************************************************************)
\* the users that send requests (current_user.id)
Users == {1, 2}

\* nutrition_goals rows up to which set_nutrition_goals is followed
MaxGoals == 3

\* the stem of a generated file name, str(uuid.uuid4())
UploadStem == <<"1", "7", "-", "e", "1", "-", "7", "1">>

\* a scan_results row; is_favorite defaults to False (models/food.py)
NoScan ==
    [id |-> 0, user_id |-> 0, image_path |-> <<>>, detected_food_name |-> <<>>,
     confidence_score |-> 0, estimated_weight_grams |-> 0, ai_nutrition_advice |-> "",
     ai_health_score |-> 0, nutrition |-> NoNutrition, is_favorite |-> FALSE]

\* the row scan_food builds from the results of its run
ScanResult(id, user_id, image_path, analysis_result, nutrition_data, nutrition_advice, health_score) ==
    [NoScan EXCEPT !.id = id, !.user_id = user_id, !.image_path = image_path,
                   !.detected_food_name = analysis_result.food_name,
                   !.confidence_score = analysis_result.confidence_score,
                   !.estimated_weight_grams = analysis_result.estimated_weight_grams,
                   !.ai_nutrition_advice = nutrition_advice,
                   !.ai_health_score = health_score,
                   !.nutrition = nutrition_data]

\* the scan_results table the process finds in its database file: two scans
\* of user 1 and one of user 2
StoredScans ==
    LET analysis == _analyze_with_fallback(UploadStem)
        nutrition == get_nutrition_data(analysis.food_name, analysis.estimated_weight_grams)
        row(id, user_id) == ScanResult(id, user_id, UploadStem, analysis, nutrition,
                                       "advice", calculate_health_score(nutrition))
    IN  <<row(1, 1), row(2, 2), row(3, 1)>>

\* the ids a request may name: those of the stored scans and one of no scan
ScanIds == 1..4

\* the goals a user may send to set_nutrition_goals (daily_calories_goal)
GoalValues == {1800, 2500}

NoGoal == [user_id |-> 0, daily_calories_goal |-> 0, is_active |-> FALSE]

NoFoodCall ==
    [op |-> "none", user |-> 0, scan_id |-> 0, file |-> NoUpload, status |-> 0,
     saved |-> FALSE, image_path |-> <<>>, hasGoals |-> FALSE, scan |-> NoScan,
     was_favorite |-> FALSE, scans |-> <<>>, goal |-> NoGoal]

\* the user's first active goal row, NoGoal when there is none
active_goal(goals, user) ==
    LET mine == SelectSeq(goals, LAMBDA g : g.user_id = user /\ g.is_active)
    IN  IF Len(mine) = 0 THEN NoGoal ELSE mine[1]

\* the except branch of scan_food that leaves the saved file in place
keep_upload(uploads, file_path) == uploads

\* the except branch of scan_food: file_path.unlink() when the file exists
remove_upload(uploads, file_path) == uploads \ {file_path}

\* POST /food/scan.  content_type None fails before the try (unhandled, 500);
\* a content type that is no image is answered 400; the upload is written
\* under a generated name; the recognizer, the nutrition lookup, the goals
\* query, the advice and the score follow, and the row is added and
\* committed.  An exception of any of these steps removes the file and is
\* answered 500.  writable says whether the upload can be written, dbOk
\* whether the goals query succeeds.
scan_food ==
    \E user \in Users, file \in Uploads, writable \in BOOLEAN, dbOk \in BOOLEAN :
     /\ LET call == [NoFoodCall EXCEPT !.op = "scan_food", !.user = user, !.file = file]
            analysis_result == _analyze_with_fallback(UploadStem)
            nutrition_data == get_nutrition_data(analysis_result.food_name,
                                                 analysis_result.estimated_weight_grams)
            hasGoals == active_goal(database.nutrition_goals, user) # NoGoal
            nutrition_advice == generate_nutrition_advice(client_configured, hasGoals)
            health_score == calculate_health_score(nutrition_data)
            written == IF writable THEN database.uploads \cup {UploadStem}
                       ELSE database.uploads
            scan_result == ScanResult(Len(database.scan_results) + 1, user, UploadStem,
                                      analysis_result, nutrition_data, nutrition_advice,
                                      health_score)
        IN  IF Len(file.content_type) = 0
            THEN /\ foodCall' = [call EXCEPT !.status = 500]
                 /\ UNCHANGED database
            ELSE IF ~startswith(file.content_type, <<"i", "m", "a", "g", "e", "/">>)
            THEN /\ foodCall' = [call EXCEPT !.status = 400]
                 /\ UNCHANGED database
            ELSE IF ~writable \/ ~dbOk \/ nutrition_advice = "AttributeError"
            THEN /\ foodCall' = [call EXCEPT !.status = 500, !.saved = writable,
                                             !.image_path = UploadStem,
                                             !.hasGoals = dbOk /\ hasGoals]
                 /\ database' = [database EXCEPT
                                   !.uploads = remove_upload(written, UploadStem)]
            ELSE /\ foodCall' = [call EXCEPT !.status = 200, !.saved = TRUE,
                                             !.image_path = UploadStem,
                                             !.hasGoals = hasGoals, !.scan = scan_result]
                 /\ database' = [database EXCEPT
                                   !.uploads = written,
                                   !.scan_results = Append(@, scan_result)]
     /\ UNCHANGED <<BARCODE_AVAILABLE, preferences, catalogCalls, lastReq, response,
                    analyzerCall, scannerCall, sessions, requestsSent>>

otherRouteVars == <<BARCODE_AVAILABLE, preferences, catalogCalls, lastReq, response,
                    analyzerCall, scannerCall, sessions, requestsSent>>

RECURSIVE Reverse(_)
Reverse(seq) == IF Len(seq) = 0 THEN <<>> ELSE Reverse(Tail(seq)) \o <<Head(seq)>>

\* .offset(skip).limit(limit) on the rows of a query
offset_limit(rows, skip, limit) ==
    SubSeq(rows, skip + 1, Min(Len(rows), skip + limit))

\* GET /food/scan-history: the caller's scans, the latest first
get_scan_history ==
    \E user \in Users, skip \in 0..1, limit \in {1, 20} :
        LET mine == SelectSeq(database.scan_results, LAMBDA s : s.user_id = user)
        IN  /\ foodCall' = [NoFoodCall EXCEPT !.op = "get_scan_history", !.user = user,
                              !.status = 200,
                              !.scans = offset_limit(Reverse(mine), skip, limit)]
            /\ UNCHANGED database
            /\ UNCHANGED otherRouteVars

\* a query that filters by the id alone
scan_by_id(scan_results, scan_id, user) ==
    SelectSeq(scan_results, LAMBDA s : s.id = scan_id)

\* the query of get_scan_result and toggle_favorite: the rows with the id
\* asked for that belong to the caller
scan_of_user(scan_results, scan_id, user) ==
    SelectSeq(scan_results, LAMBDA s : s.id = scan_id /\ s.user_id = user)

\* GET /food/scan/{scan_id}
get_scan_result ==
    \E user \in Users, scan_id \in ScanIds :
        LET found == scan_of_user(database.scan_results, scan_id, user)
            call == [NoFoodCall EXCEPT !.op = "get_scan_result", !.user = user,
                                       !.scan_id = scan_id]
        IN  /\ foodCall' = IF Len(found) = 0 THEN [call EXCEPT !.status = 404]
                           ELSE [call EXCEPT !.status = 200, !.scan = found[1]]
            /\ UNCHANGED database
            /\ UNCHANGED otherRouteVars

\* a handler that marks the scan instead of flipping the mark
mark_favorite(scan) == [scan EXCEPT !.is_favorite = TRUE]

\* scan.is_favorite = not scan.is_favorite
flip_favorite(scan) == [scan EXCEPT !.is_favorite = ~@]

\* POST /food/scan/{scan_id}/favorite
toggle_favorite ==
    \E user \in Users, scan_id \in ScanIds :
        LET found == scan_of_user(database.scan_results, scan_id, user)
            call == [NoFoodCall EXCEPT !.op = "toggle_favorite", !.user = user,
                                       !.scan_id = scan_id]
        IN  /\ IF Len(found) = 0
               THEN /\ foodCall' = [call EXCEPT !.status = 404]
                    /\ UNCHANGED database
               ELSE /\ foodCall' = [call EXCEPT !.status = 200,
                                                !.was_favorite = found[1].is_favorite,
                                                !.scan = flip_favorite(found[1])]
                    /\ database' = [database EXCEPT !.scan_results =
                           [i \in 1..Len(@) |->
                               IF @[i].id = found[1].id THEN flip_favorite(@[i]) ELSE @[i]]]
            /\ UNCHANGED otherRouteVars

\* an update that is not filtered by the user
deactivate_every_goal(goals, user) ==
    [i \in 1..Len(goals) |-> [goals[i] EXCEPT !.is_active = FALSE]]

\* db.query(NutritionGoal).filter(user_id == current_user.id).update({"is_active": False})
deactivate_goals(goals, user) ==
    [i \in 1..Len(goals) |->
        IF goals[i].user_id = user THEN [goals[i] EXCEPT !.is_active = FALSE] ELSE goals[i]]

\* POST /food/nutrition-goals: the caller's rows are deactivated and a new
\* row, active by default, is added
set_nutrition_goals ==
    \E user \in Users, value \in GoalValues :
        LET new_goals == [user_id |-> user, daily_calories_goal |-> value, is_active |-> TRUE]
        IN  /\ Len(database.nutrition_goals) < MaxGoals
            /\ database' = [database EXCEPT !.nutrition_goals =
                                Append(deactivate_goals(@, user), new_goals)]
            /\ foodCall' = [NoFoodCall EXCEPT !.op = "set_nutrition_goals", !.user = user,
                              !.status = 200, !.goal = new_goals]
            /\ UNCHANGED otherRouteVars

\* GET /food/nutrition-goals: the caller's active row, a message without one
get_nutrition_goals ==
    \E user \in Users :
        /\ foodCall' = [NoFoodCall EXCEPT !.op = "get_nutrition_goals", !.user = user,
                          !.status = 200,
                          !.goal = active_goal(database.nutrition_goals, user)]
        /\ UNCHANGED database
        /\ UNCHANGED otherRouteVars

(***************************************************************************)
(* Specification of the routes that write the scan history                 *)
(***************************************************************************)
Init ==
    /\ BARCODE_AVAILABLE \in BOOLEAN
    /\ preferences = NoPreferences
    /\ catalogCalls = <<>>
    /\ lastReq = NoRequest
    /\ response = NoResponse
    /\ analyzerCall = NoCall
    /\ scannerCall = NoScannerCall
    /\ database = [scan_results |-> StoredScans, nutrition_goals |-> <<>>, uploads |-> {}]
    /\ foodCall = NoFoodCall
    /\ sessions = [r \in Requests |-> NoSession]
    /\ requestsSent = [new |-> 0, repeated |-> 0]

Next ==
    \/ lookup_barcode
    \/ scan_product

Spec == Init /\ [][Next]_vars

(***************************************************************************)
(* Specification of the universal analysis route.  analyze_image reads     *)
(* BARCODE_AVAILABLE and writes nothing the other routes read.             *)
(***************************************************************************)
NextAnalyze == analyze_image

SpecAnalyze == Init /\ [][NextAnalyze]_vars

(***************************************************************************)
(* Specification of the analyzer: its methods called with any arguments,   *)
(* and the route that passes a query parameter to get_nutrition_data       *)
(***************************************************************************)
NextAnalyzer ==
    \/ call_get_nutrition_data
    \/ call_calculate_health_score
    \/ get_ai_nutrition_advice
    \/ call_analyze_with_fallback

SpecAnalyzer == Init /\ [][NextAnalyzer]_vars

(***************************************************************************)
(* Specification of the four routes that take an upload.  The history is   *)
(* followed until it holds MaxScanned products.  analyze_image neither     *)
(* reads nor writes the preferences row, so its requests are explored from *)
(* the states in which the user has no row yet.                            *)
(***************************************************************************)
ScanBudgetLeft == Len(preferences.last_scanned_products) < MaxScanned

NextUploads ==
    \/ ScanBudgetLeft /\ scan_barcode
    \/ ScanBudgetLeft /\ scan_product
    \/ ScanBudgetLeft /\ analyze_products_detailed
    \/ ~preferences.exists /\ analyze_image

SpecUploads == Init /\ [][NextUploads]_vars

(***************************************************************************)
(* Specification of the food_analysis routes over the stored scans         *)
(***************************************************************************)
NextFood ==
    \/ scan_food
    \/ get_scan_history
    \/ get_scan_result
    \/ toggle_favorite

SpecFood == Init /\ [][NextFood]_vars

(***************************************************************************)
(* Specification of the routes that read or write nutrition_goals          *)
(***************************************************************************)
NextGoals ==
    \/ set_nutrition_goals
    \/ get_nutrition_goals
    \/ scan_food

SpecGoals == Init /\ [][NextGoals]_vars

(***************************************************************************)
(* Specification of the liked and disliked lists                           *)
(***************************************************************************)
NextLikes ==
    \/ get_my_preferences
    \/ add_liked_product
    \/ add_disliked_product

SpecLikes == Init /\ [][NextLikes]_vars

(***************************************************************************)
(* Specification of the scan history under requests served one at a time.  *)
(* The history compares names for equality only, so the k-th name that is  *)
(* new to it is taken to be ProductNames[k]; up to MaxRepeated requests    *)
(* send again any name sent before.                                        *)
(***************************************************************************)
NextHistory == add_scanned_product_route

SpecHistory == Init /\ [][NextHistory]_vars

(***************************************************************************)
(* Specification of the scan history under requests that overlap           *)
(***************************************************************************)
NextConcurrent ==
    \/ \E r \in Requests : load_preferences(r)
    \/ \E r \in Requests : commit_scanned_product(r)

SpecConcurrent == Init /\ [][NextConcurrent]_vars

(***************************************************************************)
(* Specification of the vision scanner: analyze_product_image called with  *)
(* any answer of the vision service                                        *)
(***************************************************************************)
NextScanner == call_analyze_product_image

SpecScanner == Init /\ [][NextScanner]_vars

(***************************************************************************)
(* Properties of analyze_image (SpecAnalyze)                               *)
(***************************************************************************)
\* the last request was an analyze_image whose upload decoded as an image and
\* that was answered with a result body
AnalyzeAnswered == response.op = "analyze_image" /\ response.status = 200

\* the vision model answered success true with a confidence that is a number
\* <= 0.3 or is absent
LowConfidenceVision(req) ==
    /\ req.vision.outcome = "result"
    /\ req.vision.success
    /\ \/ req.vision.confKind = "missing"
       \/ req.vision.confKind = "num" /\ req.vision.confidence <= 30

\* the barcode stage succeeded: Vertex detected a barcode or the library decoded one
BarcodeStageSucceeded(req) ==
    req.vertexBarcode = "detected" \/ req.decode.kind = "symbols"

\* C1: every analyze_image run on an upload that decodes as an image answers
\* with a non-null main result; it never answers success false with
\* main_result null.
C1_AlwaysMainResult ==
    AnalyzeAnswered => (response.hasMain /\ response.success)

\* C2: in analyze_image a vision result with confidence <= 0.3 (exactly 0.3
\* and a missing confidence included) is recorded as a failed attempt and is
\* never the main result; when the barcode stage found nothing either, the
\* answer has no main result.
C2_LowConfidenceVisionNeverChosen ==
    (AnalyzeAnswered /\ LowConfidenceVision(lastReq)) =>
        /\ response.all_methods[2].method = "vertex_ai_product"
        /\ ~response.all_methods[2].success
        /\ response.main_result.kind # "vision"
        /\ (~BarcodeStageSucceeded(lastReq) => ~response.hasMain)

\* a run where the vision model reported exactly 0.3, no barcode was found
\* and the answer carries no main result
C2_Witness ==
    /\ AnalyzeAnswered
    /\ lastReq.vision.success
    /\ lastReq.vision.confKind = "num"
    /\ lastReq.vision.confidence = 30
    /\ ~BarcodeStageSucceeded(lastReq)
    /\ ~response.all_methods[2].success
    /\ ~response.hasMain

\* C5: the remote catalog is asked only about barcodes of 8 to 13 characters
\* that are all digits, also when the barcode was decoded from an image by
\* analyze_barcode_image.
C5_CatalogOnlyWellFormedBarcodes ==
    \A i \in 1..Len(catalogCalls) :
        /\ Len(catalogCalls[i]) >= 8
        /\ Len(catalogCalls[i]) <= 13
        /\ \A k \in 1..Len(catalogCalls[i]) :
              catalogCalls[i][k] \in AsciiDigits \cup UnicodeDigits

\* C10: the main result of analyze_image follows method priority: when the
\* barcode stage succeeded the main result is the barcode-stage entry's data,
\* also when the vision stage succeeded with confidence > 0.3; a vision or
\* CLIP result is the main result only when the barcode stage did not succeed.
C10_BarcodePriority ==
    AnalyzeAnswered =>
        /\ BarcodeStageSucceeded(lastReq) =>
              /\ response.main_result = response.all_methods[1].data
              /\ response.main_result.kind \in {"vertex_barcode", "barcode"}
        /\ response.main_result.kind \in {"vision", "clip"} =>
              /\ ~BarcodeStageSucceeded(lastReq)
              /\ response.main_result = response.all_methods[2].data

\* a run where a barcode was decoded and the vision model also succeeded with
\* confidence 0.85: the barcode result is the main result
C10_Witness ==
    /\ AnalyzeAnswered
    /\ lastReq.decode.kind = "symbols"
    /\ lastReq.vision.success
    /\ lastReq.vision.confKind = "num"
    /\ lastReq.vision.confidence = 85
    /\ response.all_methods[2].success
    /\ response.main_result.kind = "barcode"

\* C11: analyze_image stops at the first accepted result: when the barcode
\* stage yielded an accepted product (Vertex detected a barcode or the library
\* decoded one), the vision recognizer is not called and the attempt list
\* ends with the barcode entry.
C11_ShortCircuitAfterBarcode ==
    (AnalyzeAnswered /\ BarcodeStageSucceeded(lastReq)) =>
        /\ lastReq.vision.outcome = "not_called"
        /\ Len(response.all_methods) = 1

\* the library decoded a barcode that the catalog does not know (not-found
\* status, non-200 answer, timeout or another exception)
CatalogMiss(req) ==
    /\ req.vertexBarcode = "not_detected"
    /\ req.decode.kind = "symbols"
    /\ req.catalog.kind # "found"

\* the vision model answered success true with a numeric confidence > 0.3
ConfidentVision(req) ==
    /\ req.vision.outcome = "result"
    /\ req.vision.success
    /\ req.vision.confKind = "num"
    /\ req.vision.confidence > 30

\* C12: a catalog miss falls through: when the library decoded a barcode the
\* catalog does not know, the barcode attempt is recorded as a miss (success
\* false), the vision recognizer is still called, and a vision result with
\* confidence > 0.3 is the main result instead of the barcode-stage data.
C12_CatalogMissFallsThrough ==
    (AnalyzeAnswered /\ CatalogMiss(lastReq)) =>
        /\ ~response.all_methods[1].success
        /\ lastReq.vision.outcome # "not_called"
        /\ ConfidentVision(lastReq) => response.main_result.kind = "vision"

\* C13: no exception of a single recognizer aborts analyze_image: once the
\* upload passed is_image_file and its bytes decoded as an image the run
\* answers with a result body, and a recognizer that raised is a failed entry
\* of the attempt list.
C13_RecognizerExceptionsContained ==
    (response.op = "analyze_image" /\ lastReq.isImage /\ lastReq.decodes) =>
        /\ response.status = 200
        /\ lastReq.vertexBarcode = "raise" => ~response.all_methods[1].success
        /\ lastReq.decode.kind = "raise" => ~response.all_methods[1].success
        /\ lastReq.vision.outcome = "raise" => ~response.all_methods[2].success

\* the number of recognizers a run called: Vertex barcode detection, the
\* library decoder when Vertex detected nothing and the library is installed,
\* the Vertex vision model, and CLIP when the vision model answered success
\* false
RecognizersAttempted(req) ==
    (IF req.vertexBarcode # "not_called" THEN 1 ELSE 0)
    + (IF req.decode.kind # "not_called" THEN 1 ELSE 0)
    + (IF req.vision.outcome # "not_called" THEN 1 ELSE 0)
    + (IF req.clip # NoClip THEN 1 ELSE 0)

\* C15: all_methods has one entry for every recognizer the run called, misses
\* included: a Vertex barcode detection that found nothing before the library
\* decode, and a failed Vertex vision call before CLIP, each have an entry of
\* their own.
C15_OneEntryPerAttempt ==
    AnalyzeAnswered => Len(response.all_methods) = RecognizersAttempted(lastReq)

\* C17: the barcode-decode entry of the attempt list tells 'decoder not
\* installed' from 'no barcode in the image': with the library missing the
\* entry differs from the entry of a run whose library decoded the image and
\* found no symbol.
C17_UnavailableDistinctFromNoBarcode ==
    (AnalyzeAnswered /\ lastReq.vertexBarcode = "not_detected" /\ ~BARCODE_AVAILABLE) =>
        response.all_methods[1] #
            barcode_stage("not_detected",
                          analyze_barcode_image(TRUE, [kind |-> "none", data |-> <<>>],
                                                NoCatalogAnswer))

(***************************************************************************)
(* Properties of lookup_barcode and scan_product (Spec)                    *)
(***************************************************************************)
\* 8 to 13 characters, every one a digit
WellFormedBarcode(b) ==
    /\ Len(b) >= 8
    /\ Len(b) <= 13
    /\ \A k \in 1..Len(b) : b[k] \in AsciiDigits \cup UnicodeDigits

\* C3: scan_product accepts a vision result as the identified product only
\* when its confidence is > 0.3: a vision answer with success true and a
\* confidence <= 0.3 is not answered as the product recognised by the vision
\* model (and so is not written to the scan history).
C3_ScanProductThreshold ==
    (lastReq.op = "scan_product" /\ LowConfidenceVision(lastReq)) =>
        ~(/\ response.status = 200
          /\ ~response.is_fallback
          /\ response.identified_product = lastReq.vision.product_name
          /\ preferences.last_scanned_products[1] = lastReq.vision.product_name)

\* C4 (answer): lookup_barcode answers 400 without asking the catalog when the
\* barcode is empty, has a character that is no digit or is shorter than 8 or
\* longer than 13; otherwise it asks the catalog exactly once, about that
\* barcode.
C4_Answer ==
    lastReq.op = "lookup_barcode" =>
        IF WellFormedBarcode(lastReq.barcode)
        THEN response.status = 200 /\ catalogCalls = <<lastReq.barcode>>
        ELSE response.status = 400 /\ catalogCalls = <<>>

\* C4 (history): a lookup_barcode answered 400 leaves the scan history as it was.
C4_RejectKeepsHistory ==
    (lastReq'.op = "lookup_barcode" /\ response'.status = 400) =>
        preferences' = preferences

C18_Answer ==
    (lastReq.op = "lookup_barcode" /\ lastReq.catalog.kind # "not_asked") =>
        /\ response.status = 200
        /\ response.product.asked
        /\ response.product.found \in BOOLEAN
        /\ response.product.found <=> (lastReq.catalog.kind = "found")
        /\ response.success <=> response.product.found
        /\ catalogCalls = <<lastReq.barcode>>

\* C18 (history): a lookup whose product was not found leaves the scan
\* history as it was.
C18_MissKeepsHistory ==
    (lastReq'.op = "lookup_barcode" /\ lastReq'.catalog.kind # "found") =>
        preferences' = preferences

\* C18: get_product_by_barcode never raises and always returns a boolean
\* found, true exactly on HTTP 200 with status 1; a not-found status, a
\* non-200 answer, a timeout and any other exception yield found false, and
\* lookup_barcode then answers success false and leaves the history unchanged.
C18_CatalogFailuresAreMisses == [](C18_Answer) /\ [][C18_MissKeepsHistory]_vars

\* a lookup of a well-formed barcode during which the catalog timed out:
\* answered 200 with success false, the history of an earlier scan still there
C18_Witness ==
    /\ lastReq.op = "lookup_barcode"
    /\ lastReq.catalog.kind = "timeout"
    /\ response.status = 200
    /\ ~response.success
    /\ ~response.product.found
    /\ preferences.exists
    /\ Len(preferences.last_scanned_products) > 0

\* C22: every product handed on has a non-empty name: a catalog entry
\* without product_name is named by the sentinel "unknown_product", so
\* lookup_barcode returns no found product with an empty name and no empty
\* name is written to the scan history.
C22_NoEmptyProductName ==
    /\ (response.op = "lookup_barcode" /\ response.product.found) =>
            response.product.name # ""
    /\ \A i \in 1..Len(preferences.last_scanned_products) :
            preferences.last_scanned_products[i] # ""

(***************************************************************************)
(* Properties of the analyzer (SpecAnalyzer)                               *)
(***************************************************************************)
Abs(x) == IF x < 0 THEN -x ELSE x

\* t tenths is a nearest tenth to per_100g * weight_grams / 100
NearestTenth(t, per_100g, weight_grams) ==
    Abs(100 * t - per_100g * weight_grams) <= 50

NutritionCall == analyzerCall.method = "get_nutrition_data"

\* a key is related to a name when it is in the lower-cased name or the
\* lower-cased name is in it
Related(key, food_name) ==
    Contains(lower(food_name), key) \/ Contains(key, lower(food_name))

\* the row the claim describes: that of the first related key in table order,
\* the generic row when no key is related
ClaimedRow(food_name) ==
    IF \E i \in 1..Len(food_database) : Related(food_database[i].key, food_name)
    THEN food_database[CHOOSE i \in 1..Len(food_database) :
                          /\ Related(food_database[i].key, food_name)
                          /\ \A j \in 1..(i - 1) : ~Related(food_database[j].key, food_name)]
    ELSE generic_row

\* C6: every amount get_nutrition_data returns is the selected row's per-100g
\* amount times weight / 100 rounded to one decimal and the category is the
\* row's, so the result is fixed by (name, weight); ("apple", 200) gives
\* calories 104.0, protein 0.6, carbs 28.0, fat 0.4, fiber 4.8.
C6_LinearScalingRounded ==
    NutritionCall =>
        LET row == nutrition_per_100g(analyzerCall.food_name)
            w == analyzerCall.weight_grams
            r == analyzerCall.nutrition_data
        IN  /\ NearestTenth(r.calories, row.calories, w)
            /\ NearestTenth(r.protein, row.protein, w)
            /\ NearestTenth(r.carbs, row.carbs, w)
            /\ NearestTenth(r.fat, row.fat, w)
            /\ NearestTenth(r.fiber, row.fiber, w)
            /\ r.category = row.category
            /\ (analyzerCall.food_name = <<"a", "p", "p", "l", "e">> /\ w = 200) =>
                  r = [calories |-> 1040, protein |-> 6, carbs |-> 280, fat |-> 4,
                       fiber |-> 48, hasCategory |-> TRUE, category |-> "fruit"]

\* get_nutrition_data("apple", 30) returned: 15.6 kcal exactly, and 0.09 g of
\* protein rounded to 0.1
C6_Witness ==
    /\ NutritionCall
    /\ analyzerCall.food_name = <<"a", "p", "p", "l", "e">>
    /\ analyzerCall.weight_grams = 30
    /\ analyzerCall.nutrition_data.calories = 156
    /\ analyzerCall.nutrition_data.protein = 1

\* C7: the row used is that of the first key, in the order apple, banana,
\* bread, chicken breast, rice, that contains the lower-cased name or is
\* contained in it, wherever it occurs in the name; with no related key the
\* generic row is used, and ("totally_unknown_xyz", 100) returns it unchanged.
C7_FirstRelatedKeyWins ==
    /\ [i \in 1..Len(food_database) |-> food_database[i].key] =
          <<<<"a", "p", "p", "l", "e">>, <<"b", "a", "n", "a", "n", "a">>, <<"b", "r", "e", "a", "d">>, <<"c", "h", "i", "c", "k", "e", "n", " ", "b", "r", "e", "a", "s", "t">>, <<"r", "i", "c", "e">>>>
    /\ (NutritionCall /\ analyzerCall.weight_grams = 100) =>
        LET row == ClaimedRow(analyzerCall.food_name)
            r == analyzerCall.nutrition_data
        IN  /\ r = [calories |-> row.calories, protein |-> row.protein,
                    carbs |-> row.carbs, fat |-> row.fat, fiber |-> row.fiber,
                    hasCategory |-> TRUE, category |-> row.category]
            /\ analyzerCall.food_name = <<"t", "o", "t", "a", "l", "l", "y", "_", "u", "n", "k", "n", "o", "w", "n", "_", "x", "y", "z">> =>
                  r = [calories |-> 2000, protein |-> 50, carbs |-> 300, fat |-> 80,
                       fiber |-> 30, hasCategory |-> TRUE, category |-> "unknown"]

\* get_nutrition_data("rice bread", 100) returned the bread row: rice comes
\* first in the name, bread comes first in the table
C7_Witness ==
    /\ NutritionCall
    /\ analyzerCall.food_name = <<"r", "i", "c", "e", " ", "b", "r", "e", "a", "d">>
    /\ analyzerCall.weight_grams = 100
    /\ analyzerCall.nutrition_data.calories = 2650

\* C8: get_nutrition_data rejects a weight <= 0: no call with weight_grams <= 0
\* returns nutrition totals.
C8_NonPositiveWeightRejected ==
    (NutritionCall /\ analyzerCall.weight_grams <= 0) => analyzerCall.outcome # "returned"

\* the base score the claim gives a category, in tenths
ClaimedBase(category) ==
    CASE category = "fruit" -> 85
      [] category = "vegetable" -> 90
      [] category = "protein" -> 75
      [] category = "grain" -> 65
      [] category = "dairy" -> 60
      [] OTHER -> 50

\* C9: calculate_health_score is base(category) + 0.5 if fiber > 3 + 0.5 if
\* protein > 10 - 1.0 if calories > 400 - 0.5 if fat > 15, clamped to
\* [1.0, 10.0]; it is within [1.0, 10.0] for every input; fruit with fiber 4,
\* protein 2, calories 100, fat 1 scores 9.0; unknown with calories > 400 and
\* fat > 15 (and no bonus) scores 3.5.
C9_HealthScoreFormula ==
    analyzerCall.method = "calculate_health_score" =>
        LET nd == analyzerCall.nutrition_data
            category == IF nd.hasCategory THEN nd.category ELSE "unknown"
            sum == ClaimedBase(category)
                   + (IF nd.fiber > 30 THEN 5 ELSE 0)
                   + (IF nd.protein > 100 THEN 5 ELSE 0)
                   - (IF nd.calories > 4000 THEN 10 ELSE 0)
                   - (IF nd.fat > 150 THEN 5 ELSE 0)
            score == analyzerCall.health_score
        IN  /\ score = (IF sum < 10 THEN 10 ELSE IF sum > 100 THEN 100 ELSE sum)
            /\ score >= 10
            /\ score <= 100
            /\ (category = "fruit" /\ nd.fiber = 40 /\ nd.protein = 20
                /\ nd.calories = 1000 /\ nd.fat = 10) => score = 90
            /\ (category = "unknown" /\ nd.calories > 4000 /\ nd.fat > 150
                /\ nd.fiber <= 30 /\ nd.protein <= 100) => score = 35

\* a fruit with exactly 3 g of fiber and exactly 10 g of protein was scored:
\* neither bonus applies
C9_Witness ==
    /\ analyzerCall.method = "calculate_health_score"
    /\ analyzerCall.nutrition_data.category = "fruit"
    /\ analyzerCall.nutrition_data.fiber = 30
    /\ analyzerCall.nutrition_data.protein = 100
    /\ analyzerCall.nutrition_data.calories = 4000
    /\ analyzerCall.nutrition_data.fat = 150
    /\ analyzerCall.health_score = 85


(***************************************************************************)
(* Properties of the advice route (SpecAnalyzer)                           *)
(***************************************************************************)
\* C14: generate_nutrition_advice never raises: for a user without an active
\* goal (and with no AI client configured) it returns the templated sentence
\* of the food's category, so get_ai_nutrition_advice completes with an
\* answer for every food name and weight.
C14_AdviceWithoutGoals ==
    (response.op = "get_ai_nutrition_advice" /\ ~lastReq.hasGoals) =>
        /\ response.status = 200
        /\ response.success

\* no key of the vocabulary is in the stem and the stem is in no key
NothingMatches(image_stem) ==
    \A i \in 1..Len(food_database) :
        /\ ~Contains(lower(image_stem), food_database[i].key)
        /\ ~Contains(food_database[i].key, lower(image_stem))

\* C21: the heuristic fallback recognizer never fails: for every input it
\* returns a product with a name, and when nothing of its vocabulary matches
\* it returns the sentinel name with confidence 0.1.
C21_FallbackSentinelConfidence ==
    analyzerCall.method = "_analyze_with_fallback" =>
        /\ analyzerCall.outcome = "returned"
        /\ Len(analyzerCall.food_name) > 0
        /\ NothingMatches(analyzerCall.image_name) =>
              /\ analyzerCall.food_name = <<"u", "n", "k", "n", "o", "w", "n", " ", "f", "o", "o", "d">>
              /\ analyzerCall.confidence_score = 10

(***************************************************************************)
(* Properties of the upload routes (SpecUploads)                           *)
(***************************************************************************)
UploadRoutes == {"scan_barcode", "scan_product", "analyze_image", "analyze_products_detailed"}

\* the upload's content type does not start with image/ and its file name,
\* upper or lower case, does not end in .jpg, .jpeg or .png
NotAnImage(file) ==
    /\ ~startswith(file.content_type, <<"i", "m", "a", "g", "e", "/">>)
    /\ ~\E ext \in {<<".", "j", "p", "g">>, <<".", "j", "p", "e", "g">>, <<".", "p", "n", "g">>} : endswith(lower(file.filename), ext)

\* no recognizer was called and nothing was asked of the catalog
NoRecognizerAttempted(req) ==
    /\ ~req.decodes
    /\ req.vertexBarcode = "not_called"
    /\ req.decode.kind = "not_called"
    /\ req.catalog.kind = "not_asked"
    /\ req.vision.outcome = "not_called"
    /\ req.clip = NoClip
    /\ req.detailed.outcome = "not_called"

\* C16 (answer): the four upload routes reject exactly the uploads that are
\* no image by content type and file name; a rejected upload is answered with
\* an error, is never read as an image, and no recognizer or catalog is called.
C16_Answer ==
    lastReq.op \in UploadRoutes =>
        /\ lastReq.isImage <=> ~NotAnImage(lastReq.file)
        /\ NotAnImage(lastReq.file) =>
              /\ response.status >= 400
              /\ ~response.success
              /\ NoRecognizerAttempted(lastReq)
              /\ catalogCalls = <<>>

\* C16 (history): a request of an upload route with a rejected upload leaves
\* the scan history as it was.
C16_RejectKeepsHistory ==
    (lastReq'.op \in UploadRoutes /\ NotAnImage(lastReq'.file)) =>
        preferences' = preferences

\* C16: an upload rejected by is_image_file is never read as an image:
\* scan_barcode, scan_product, analyze_image and analyze_products_detailed
\* report the rejection without attempting any recognizer and without
\* changing the user's scan history.
C16_RejectedUploadTouchesNothing == [](C16_Answer) /\ [][C16_RejectKeepsHistory]_vars

\* analyze_products_detailed answered an upload a.txt of type text/plain with
\* an error; nothing was called and the product of an earlier scan is still
\* the history
C16_Witness ==
    /\ lastReq.op = "analyze_products_detailed"
    /\ lastReq.file = [content_type |-> <<"t", "e", "x", "t", "/", "p", "l", "a", "i", "n">>, filename |-> <<"a", ".", "t", "x", "t">>]
    /\ ~lastReq.isImage
    /\ response.status = 500
    /\ NoRecognizerAttempted(lastReq)
    /\ preferences.exists
    /\ Len(preferences.last_scanned_products) = 1

\* C30: a non-image upload to scan_barcode, scan_product, analyze_image or
\* analyze_products_detailed is answered with the HTTP 400 raised at the
\* is_image_file check; the handler does not turn the rejection into a 500.
C30_RejectionAnswered400 ==
    (lastReq.op \in UploadRoutes /\ ~lastReq.isImage) => response.status = 400

(***************************************************************************)
(* Properties of the vision scanner (SpecScanner)                          *)
(***************************************************************************)
\* the JSON object between an opening fence, tagged json or untagged, and a
\* closing fence
FencedObjects ==
    {o \o <<JsonObject>> \o <<Newline, Fence>> :
        o \in {<<Fence, Tag, Newline>>, <<Fence, Newline>>}}

\* C19: analyze_product_image tolerates a response wrapped in code fences,
\* tagged json or untagged: the fences are removed, the JSON object is parsed
\* and the result has success true.
C19_FencedJsonParsed ==
    (/\ scannerCall.method = "analyze_product_image"
     /\ scannerCall.response.kind = "content"
     /\ strip(scannerCall.response.content) \in FencedObjects) =>
        /\ scannerCall.result.success
        /\ scannerCall.result.scan_method = "vertex_ai_vision"

\* the text is no JSON value, with or without fences around it
Unparsable(text) ==
    json_loads(replace(replace(strip(text), <<Fence, Tag>>), <<Fence>>)) = "JSONDecodeError"

\* C20: when the vision model's text cannot be parsed as JSON,
\* analyze_product_image returns (it does not raise) a result with success
\* false that keeps the raw response text: the text is part of the record's
\* error field, the only field that is not a constant of the fallback record.
C20_ParseFailureKeepsRawText ==
    (/\ scannerCall.method = "analyze_product_image"
     /\ scannerCall.response.kind = "content"
     /\ Unparsable(scannerCall.response.content)) =>
        /\ ~scannerCall.result.success
        /\ scannerCall.result.scan_method = "fallback"
        /\ Contains(scannerCall.result.error, scannerCall.response.content)

(***************************************************************************)
(* Properties of the food_analysis routes (SpecFood)                       *)
(***************************************************************************)
\* C23: a run of scan_food that completes (200) adds exactly one row to
\* scan_results, after the rows that were there, carrying the caller, the
\* name, confidence and weight of the recognizer, the nutrition, the score
\* and the advice of the run; a run that does not complete leaves
\* scan_results as it was, and when it had saved the upload the file is no
\* longer in the uploads directory.
C23_ScanFoodStep ==
    foodCall'.op = "scan_food" =>
        LET before == database.scan_results
            after == database'.scan_results
            analysis == _analyze_with_fallback(foodCall'.image_path)
            nutrition == get_nutrition_data(analysis.food_name, analysis.estimated_weight_grams)
        IN  /\ foodCall'.status = 200 =>
                /\ Len(after) = Len(before) + 1
                /\ SubSeq(after, 1, Len(before)) = before
                /\ after[Len(after)].user_id = foodCall'.user
                /\ after[Len(after)].detected_food_name = analysis.food_name
                /\ after[Len(after)].confidence_score = analysis.confidence_score
                /\ after[Len(after)].estimated_weight_grams = analysis.estimated_weight_grams
                /\ after[Len(after)].nutrition = nutrition
                /\ after[Len(after)].ai_health_score = calculate_health_score(nutrition)
                /\ after[Len(after)].ai_nutrition_advice # "AttributeError"
            /\ foodCall'.status # 200 =>
                /\ after = before
                /\ foodCall'.saved => foodCall'.image_path \notin database'.uploads

ScanWithId(scan_results, id) ==
    LET rows == SelectSeq(scan_results, LAMBDA s : s.id = id)
    IN  IF Len(rows) = 0 THEN NoScan ELSE rows[1]

ToggleAnswered(call) == call.op = "toggle_favorite" /\ call.status = 200

\* C24: no request changes a field of a stored scan other than is_favorite,
\* and none removes a scan; a request other than an answered toggle_favorite
\* changes no scan at all; an answered toggle_favorite negates is_favorite of
\* the scan it names and leaves every other scan as it was; a second toggle
\* of the same scan right after the first gives is_favorite the value it had
\* before the first.
C24_FavoriteStep ==
    LET before == database.scan_results
        after == database'.scan_results
    IN  /\ Len(after) >= Len(before)
        /\ \A i \in 1..Len(before) :
              /\ [after[i] EXCEPT !.is_favorite = before[i].is_favorite] = before[i]
              /\ ~ToggleAnswered(foodCall') => after[i] = before[i]
              /\ ToggleAnswered(foodCall') =>
                    IF before[i].id = foodCall'.scan_id
                    THEN after[i].is_favorite = ~before[i].is_favorite
                    ELSE after[i] = before[i]
        /\ (ToggleAnswered(foodCall) /\ ToggleAnswered(foodCall')
               /\ foodCall'.scan_id = foodCall.scan_id) =>
              ScanWithId(after, foodCall'.scan_id).is_favorite = foodCall.was_favorite

C24_OnlyFavoriteChanges == [][C24_FavoriteStep]_vars

\* scan 1 was marked and unmarked again while scan 3 stayed marked
C24_Witness ==
    /\ ToggleAnswered(foodCall)
    /\ foodCall.scan_id = 1
    /\ foodCall.was_favorite
    /\ ~ScanWithId(database.scan_results, 1).is_favorite
    /\ ScanWithId(database.scan_results, 3).is_favorite
    /\ [ScanWithId(database.scan_results, 3) EXCEPT !.is_favorite = FALSE] = StoredScans[3]

\* the request names a stored scan of a user other than the caller
NamesForeignScan(call) ==
    /\ call.op \in {"get_scan_result", "toggle_favorite"}
    /\ ScanWithId(database.scan_results, call.scan_id) # NoScan
    /\ ScanWithId(database.scan_results, call.scan_id).user_id # call.user

\* C29: get_scan_result and toggle_favorite called with the id of a scan of
\* another user answer 404 and return no scan; get_scan_history returns
\* scans of the caller only.
C29_Answer ==
    /\ NamesForeignScan(foodCall) => (foodCall.status = 404 /\ foodCall.scan = NoScan)
    /\ foodCall.op = "get_scan_history" =>
          \A i \in 1..Len(foodCall.scans) : foodCall.scans[i].user_id = foodCall.user

\* C29: such a request leaves every stored scan as it was.
C29_ForeignScanUntouched ==
    (foodCall'.op \in {"get_scan_result", "toggle_favorite"}
        /\ ScanWithId(database.scan_results, foodCall'.scan_id) # NoScan
        /\ ScanWithId(database.scan_results, foodCall'.scan_id).user_id # foodCall'.user)
    => database'.scan_results = database.scan_results

C29_ScansArePrivate == [](C29_Answer) /\ [][C29_ForeignScanUntouched]_vars

\* user 2 asked to toggle scan 1, which belongs to user 1
C29_Witness ==
    /\ foodCall.op = "toggle_favorite"
    /\ foodCall.user = 2
    /\ foodCall.scan_id = 1
    /\ foodCall.status = 404
    /\ ScanWithId(database.scan_results, 1).user_id = 1

(***************************************************************************)
(* Properties of the nutrition goals (SpecGoals)                           *)
(***************************************************************************)
GoalsOf(goals, user) == SelectSeq(goals, LAMBDA g : g.user_id = user)

\* C28: a user with rows in nutrition_goals has exactly one active row, the
\* last one the user added; set_nutrition_goals leaves that row as the
\* user's active goal and get_nutrition_goals returns it.
C28_OneActiveGoal ==
    /\ \A user \in Users :
          LET mine == GoalsOf(database.nutrition_goals, user)
          IN  Len(mine) > 0 =>
                 /\ Cardinality({i \in 1..Len(mine) : mine[i].is_active}) = 1
                 /\ mine[Len(mine)].is_active
    /\ foodCall.op = "set_nutrition_goals" =>
          /\ active_goal(database.nutrition_goals, foodCall.user) = foodCall.goal
          /\ LET mine == GoalsOf(database.nutrition_goals, foodCall.user)
             IN  mine[Len(mine)] = foodCall.goal
    /\ foodCall.op = "get_nutrition_goals" =>
          LET mine == GoalsOf(database.nutrition_goals, foodCall.user)
          IN  foodCall.goal = IF Len(mine) = 0 THEN NoGoal ELSE mine[Len(mine)]

\* C28: a call of set_nutrition_goals leaves the rows of the other users as
\* they were.
C28_OthersUnchanged ==
    foodCall'.op = "set_nutrition_goals" =>
        \A user \in Users \ {foodCall'.user} :
            GoalsOf(database'.nutrition_goals, user) = GoalsOf(database.nutrition_goals, user)

C28_GoalsPerUser == [](C28_OneActiveGoal) /\ [][C28_OthersUnchanged]_vars

\* user 1 replaced a goal of 1800 by one of 2500 after user 2 had set a goal
C28_Witness ==
    /\ foodCall.op = "set_nutrition_goals"
    /\ foodCall.user = 1
    /\ database.nutrition_goals =
          <<[user_id |-> 2, daily_calories_goal |-> 1800, is_active |-> TRUE],
            [user_id |-> 1, daily_calories_goal |-> 1800, is_active |-> FALSE],
            [user_id |-> 1, daily_calories_goal |-> 2500, is_active |-> TRUE]>>

(***************************************************************************)
(* Properties of the preference lists (SpecLikes, SpecHistory)             *)
(***************************************************************************)
NoDuplicates(seq) == \A i, j \in 1..Len(seq) : seq[i] = seq[j] => i = j

\* C27: no product is in both the liked and the disliked list and neither
\* list holds a product twice.
C27_ListsDisjoint ==
    /\ NoDuplicates(preferences.liked_products)
    /\ NoDuplicates(preferences.disliked_products)
    /\ \A i \in 1..Len(preferences.liked_products) :
          ~InSeq(preferences.disliked_products, preferences.liked_products[i])

\* C27: a request that adds a product to the list that already holds it
\* leaves the preferences row as it was.
C27_ReaddChangesNothing ==
    /\ (lastReq'.op = "add_liked_product"
           /\ InSeq(preferences.liked_products, lastReq'.product))
          => preferences' = preferences
    /\ (lastReq'.op = "add_disliked_product"
           /\ InSeq(preferences.disliked_products, lastReq'.product))
          => preferences' = preferences

C27_LikedDislikedExclusive == [](C27_ListsDisjoint) /\ [][C27_ReaddChangesNothing]_vars

\* all three products were placed, the last request put one on the disliked
\* list
C27_Witness ==
    /\ lastReq.op = "add_disliked_product"
    /\ response.status = 200
    /\ Len(preferences.liked_products) = 2
    /\ preferences.disliked_products = <<lastReq.product>>

\* C25: under add_scanned_product alone, from an empty history: the history
\* holds no product twice and at most max_history products, and the product
\* of the last request is its first entry.
C25_HistoryShape ==
    LET history == preferences.last_scanned_products
    IN  /\ NoDuplicates(history)
        /\ Len(history) <= max_history
        /\ lastReq.op = "add_scanned_product" =>
              (Len(history) > 0 /\ history[1] = lastReq.product)

\* C25: a request puts its product in front of the other products, which
\* keep their order; only a product that falls behind position max_history
\* leaves the history.
C25_OthersKeepOrder ==
    lastReq'.op = "add_scanned_product" =>
        LET before == preferences.last_scanned_products
            after == preferences'.last_scanned_products
            others == SelectSeq(before, LAMBDA p : p # lastReq'.product)
        IN  /\ after[1] = lastReq'.product
            /\ Len(after) = Min(1 + Len(others), max_history)
            /\ Tail(after) = SubSeq(others, 1, Len(after) - 1)

C25_HistoryBoundedOrdered == [](C25_HistoryShape) /\ [][C25_OthersKeepOrder]_vars

\* the history is full, the first product sent has left it, and the last
\* request sent a product again
C25_Witness ==
    /\ Len(preferences.last_scanned_products) = max_history
    /\ requestsSent.new = max_history + 1
    /\ requestsSent.repeated = 1
    /\ ~InSeq(preferences.last_scanned_products, ProductNames[1])
    /\ lastReq.product # ProductNames[max_history + 1]

(***************************************************************************)
(* Property of overlapping requests (SpecConcurrent)                       *)
(***************************************************************************)
\* C26: when two requests of the user that added different products have
\* both committed, the stored history holds both products.
C26_NoLostUpdate ==
    (/\ \A r \in Requests : sessions[r].pc = "committed"
     /\ sessions[1].product # sessions[2].product)
    => \A r \in Requests : InSeq(preferences.last_scanned_products, sessions[r].product)

====
